---- MODULE Spec2Model ----
(***************************************************************************)
(* Model of the amortisation engine of calculadora-deuda,                  *)
(* src/lib/debtCalculations.ts: calculateSnowballPlan and its helpers.     *)
(*                                                                         *)
(* Money is an integer number of units of 1/Scale cent.  Balances, minimum *)
(* payments and budgets of the inputs are whole cents and annual rates are *)
(* whole percents, so balance * (rate / 100) / 12 is a whole number of     *)
(* units and every amount the engine computes is represented exactly.      *)
(* The arithmetic is that of the decimal values; the binary representation *)
(* error of IEEE doubles is not modelled.                                  *)
(***************************************************************************)
EXTENDS Integers, Sequences, FiniteSets, TLC

\* units per cent: a balance of whole cents times a whole percent, divided
\* by 100 and by 12, is a whole number of units
Scale == 1200

\* units per currency unit (100 cents)
Cent == Scale

\* the safety ceiling of the month loop
MAX_MONTHS == 600

\* ------------------------------------------------------------------ bounds
\* longest debt list handed to the engine
MaxDebts == 2

\* ------------------------------------------------------------------ inputs
\* a Debt (id is given by the position in the caller's list)
Debt(bal, rate, minPay) ==
  [balance |-> bal * Cent, interestRate |-> rate, minimumPayment |-> minPay * Cent]

\* the debts the caller can hold: balance (cents), annual rate (%), minimum (cents)
DebtProfiles ==
  { Debt(120, 0, 50),     \* no interest, last payment smaller than the minimum
    Debt(100, 7, 50),     \* interest of a fraction of a cent, rounded up or down
    Debt(100, 6, 40),     \* interest of exactly half a cent, same balance as above
    Debt(250, 18, 10),    \* interest of several cents and a fraction
    Debt(300, 12, 100),   \* interest of whole cents in the first month
    Debt(200, 12, 1),     \* minimum below the monthly interest
    Debt(700, 0, 1) }     \* minimum above the interest, more than MAX_MONTHS months

\* budgets, relative to the sum of the minimum payments (cents)
BudgetDeltas == { -1, 0, 30, 400 }

WithIds(profiles) ==
  [i \in 1..Len(profiles) |->
     [id |-> i, balance |-> profiles[i].balance,
      interestRate |-> profiles[i].interestRate,
      minimumPayment |-> profiles[i].minimumPayment]]

DebtLists ==
  { WithIds(ps) : ps \in UNION { [1..n -> DebtProfiles] : n \in 0..MaxDebts } }

RECURSIVE SumMinimums(_, _)
SumMinimums(ds, i) ==
  IF i > Len(ds) THEN 0 ELSE ds[i].minimumPayment + SumMinimums(ds, i + 1)

Budgets(ds) == { 0, -Cent } \cup { SumMinimums(ds, 1) + d * Cent : d \in BudgetDeltas }

\* the worked scenarios, in currency units:
\* A: one debt 1200 at 0%, minimum 100, budget 100
\* B: debts 500 and 1000 at 0%, minimum 50 each, budget 150
Scenarios ==
  { [debts |-> WithIds(<< Debt(120000, 0, 10000) >>), budget |-> 10000 * Cent],
    [debts |-> WithIds(<< Debt(50000, 0, 5000), Debt(100000, 0, 5000) >>),
     budget |-> 15000 * Cent] }

\* ----------------------------------------------------------------- helpers
\* slip: Math.floor in place of Math.round
round2Floor(n) == (n \div Cent) * Cent

\* Math.round((n + Number.EPSILON) * 100) / 100: nearest cent, halves up
round2(n) == ((n + (Cent \div 2)) \div Cent) * Cent

\* slip: a rate of 0 is charged as 1%
calculateMonthlyInterestAtLeastOne(balance, annualRate) ==
  (balance * (IF annualRate = 0 THEN 1 ELSE annualRate)) \div 1200

\* (balance * (annualRate / 100)) / 12
calculateMonthlyInterest(balance, annualRate) == (balance * annualRate) \div 1200

Max(a, b) == IF a >= b THEN a ELSE b

\* slip: a debt is placed before the debts of equal balance already placed
RECURSIVE InsertByBalanceUnstable(_, _)
InsertByBalanceUnstable(sorted, d) ==
  IF sorted = << >> THEN << d >>
  ELSE IF sorted[Len(sorted)].balance < d.balance THEN Append(sorted, d)
  ELSE Append(InsertByBalanceUnstable(SubSeq(sorted, 1, Len(sorted) - 1), d),
              sorted[Len(sorted)])

\* [...debts].sort((a, b) => a.balance - b.balance): stable, ascending balance
RECURSIVE InsertByBalance(_, _)
InsertByBalance(sorted, d) ==
  IF sorted = << >> THEN << d >>
  ELSE IF sorted[Len(sorted)].balance <= d.balance THEN Append(sorted, d)
  ELSE Append(InsertByBalance(SubSeq(sorted, 1, Len(sorted) - 1), d),
              sorted[Len(sorted)])

RECURSIVE SortFrom(_, _, _)
SortFrom(ds, i, sorted) ==
  IF i > Len(ds) THEN sorted ELSE SortFrom(ds, i + 1, InsertByBalance(sorted, ds[i]))

sortDebtsBySnowball(ds) == SortFrom(ds, 1, << >>)

\* [...debts].sort((a, b) => b.interestRate - a.interestRate): stable, descending rate
RECURSIVE InsertByRate(_, _)
InsertByRate(sorted, d) ==
  IF sorted = << >> THEN << d >>
  ELSE IF sorted[Len(sorted)].interestRate >= d.interestRate THEN Append(sorted, d)
  ELSE Append(InsertByRate(SubSeq(sorted, 1, Len(sorted) - 1), d),
              sorted[Len(sorted)])

RECURSIVE SortByRateFrom(_, _, _)
SortByRateFrom(ds, i, sorted) ==
  IF i > Len(ds) THEN sorted
  ELSE SortByRateFrom(ds, i + 1, InsertByRate(sorted, ds[i]))

sortDebtsByAvalanche(ds) == SortByRateFrom(ds, 1, << >>)

\* ------------------------------------------------- calculateMinimumOnlyPlan
\* balance * monthlyRate, with monthlyRate = interestRate / 100 / 12; the
\* product is rounded down to the unit (the code rounds it to a double)
InterestPayment(balance, rate) ==
  (balance \div 1200) * rate + ((balance % 1200) * rate) \div 1200

\* slip: Math.floor, the last partial payment is not counted
CeilDivFloor(a, b) == a \div b

\* Math.ceil(balance / debt.minimumPayment)
CeilDiv(a, b) == (a + b - 1) \div b

\* slip: the loop is left without setting months
NonConvergentMonthsKept(months) == months

\* months = 600; break  (the payment does not cover the interest)
NonConvergentMonths(months) == 600

\* while (balance > 0.01 && months < 600) { ... }: the locals after the loop
RECURSIVE MinimumLoop(_, _, _, _)
MinimumLoop(debt, balance, months, interestPaid) ==
  IF ~(balance > Cent /\ months < 600)
  THEN [months |-> months, interestPaid |-> interestPaid]
  ELSE LET interestPayment  == InterestPayment(balance, debt.interestRate)
           principalPayment == Max(0, debt.minimumPayment - interestPayment)
       IN IF principalPayment <= 0
          THEN [months |-> NonConvergentMonths(months),
                interestPaid |-> interestPaid]
          ELSE MinimumLoop(debt, balance - principalPayment, months + 1,
                           interestPaid + interestPayment)

\* slip: maxMonths = months, the count of the last debt
MaxMonthsLast(maxMonths, months) == months

\* Math.max(maxMonths, months)
MaxMonths(maxMonths, months) == Max(maxMonths, months)

\* one iteration of "for (const debt of debts)": months, interestPaid and the
\* amount added to totalPaid (all 0 for a skipped debt)
MinimumOnlyDebt(debt) ==
  IF debt.balance = 0 \/ debt.minimumPayment = 0
  THEN [months |-> 0, interestPaid |-> 0, paid |-> 0]
  ELSE IF debt.interestRate = 0
  THEN [months |-> CeilDiv(debt.balance, debt.minimumPayment),
        interestPaid |-> 0, paid |-> debt.balance]
  ELSE LET loop == MinimumLoop(debt, debt.balance, 0, 0)
       IN [months |-> loop.months, interestPaid |-> loop.interestPaid,
           paid |-> debt.balance + loop.interestPaid]

RECURSIVE MinimumOnlyFrom(_, _, _)
MinimumOnlyFrom(ds, i, acc) ==
  IF i > Len(ds) THEN acc
  ELSE LET d == MinimumOnlyDebt(ds[i])
       IN MinimumOnlyFrom(ds, i + 1,
            [totalMonths   |-> MaxMonths(acc.totalMonths, d.months),
             totalInterest |-> acc.totalInterest + d.interestPaid,
             totalPaid     |-> acc.totalPaid + d.paid,
             locals        |-> Append(acc.locals, d)])

calculateMinimumOnlyPlan(ds) ==
  MinimumOnlyFrom(ds, 1, [totalMonths |-> 0, totalInterest |-> 0, totalPaid |-> 0,
                          locals |-> << >>])

\* ------------------------------------------------------------------- dates
\* a calendar date; month is 0..11 as in Date.getMonth()
Date(y, m, d) == [year |-> y, month |-> m, day |-> d]

IsLeap(y) == (y % 4 = 0 /\ y % 100 /= 0) \/ y % 400 = 0

DaysInMonth(y, m) ==
  IF m = 1 THEN (IF IsLeap(y) THEN 29 ELSE 28)
  ELSE IF m \in {3, 5, 8, 10} THEN 30 ELSE 31

\* Date.prototype.setMonth(monthValue), monthValue >= 0: the year and month
\* are taken from monthValue, the day of the month is kept, and a day the
\* month does not have runs over into the next month
setMonth(date, monthValue) ==
  LET y   == date.year + monthValue \div 12
      m   == monthValue % 12
      dim == DaysInMonth(y, m)
  IN IF date.day <= dim THEN Date(y, m, date.day)
     ELSE IF m = 11 THEN Date(y + 1, 0, date.day - dim)
     ELSE Date(y, m + 1, date.day - dim)

PrevDay(date) ==
  IF date.day > 1 THEN Date(date.year, date.month, date.day - 1)
  ELSE IF date.month > 0
  THEN Date(date.year, date.month - 1, DaysInMonth(date.year, date.month - 1))
  ELSE Date(date.year - 1, 11, 31)

NextDay(date) ==
  IF date.day < DaysInMonth(date.year, date.month)
  THEN Date(date.year, date.month, date.day + 1)
  ELSE IF date.month < 11 THEN Date(date.year, date.month + 1, 1)
  ELSE Date(date.year + 1, 0, 1)

\* toISOString().split('T')[0] of a local midnight: the UTC date, which is
\* the day before in a time zone ahead of UTC
toISODate(date, ahead) == IF ahead THEN PrevDay(date) ELSE date

\* new Date().toISOString().split('T')[0]: the UTC date of the present
\* moment, for the local date and the time zone of the clock
NowISODates(date, ahead) ==
  IF ahead THEN { PrevDay(date), date } ELSE { date, NextDay(date) }

\* ------------------------------------------------------------------- state
VARIABLES
  debts,            \* the caller's debt list (argument)
  monthlyBudget,    \* the caller's budget (argument)
  pc,               \* "call", "loop", "return", "done" (returned), "error" (threw)
  workingDebts,     \* sorted private copies, balances updated month by month
  paymentPlan,      \* the PaymentMonth entries pushed so far
  month,            \* month counter
  totalInterest,    \* running sum of interestPaid
  totalPaid,        \* running sum of payment
  leftover,         \* per debt of the last walk: the amount cut off by the cap
  result,           \* the returned object, NoResult before the return or on a throw
  minimumResult,    \* what calculateMinimumOnlyPlan(debts) returned, NoResult before
  minimumLocals,    \* per debt of that call: months, interestPaid and amount added to totalPaid
  snowballSorted,   \* what sortDebtsBySnowball(debts) returned, NoResult before
  avalancheSorted,  \* what sortDebtsByAvalanche(debts) returned, NoResult before
  startDate,        \* the local calendar date of new Date() at the call
  zoneAhead         \* the local time zone is ahead of UTC

vars == << debts, monthlyBudget, pc, workingDebts, paymentPlan, month,
           totalInterest, totalPaid, leftover, result,
           minimumResult, minimumLocals, snowballSorted, avalancheSorted,
           startDate, zoneAhead >>

\* the clock the call reads
clock == << startDate, zoneAhead >>

\* a call in the middle of January, in a time zone not ahead of UTC
FixedClock == startDate = Date(2025, 0, 15) /\ zoneAhead = FALSE

\* the results of the other functions of the module
others == << minimumResult, minimumLocals, snowballSorted, avalancheSorted >>

NoResult == [kind |-> "none"]

IsOpen(debt) == debt.balance > 0

OpenIndices(wd) == { i \in 1..Len(wd) : IsOpen(wd[i]) }

\* workingDebts.some(debt => debt.balance > 0)
SomeOpen(wd) == OpenIndices(wd) /= {}

\* slip: the filter is inverted and counts the closed debts
RemainingDebtsClosed(wd) == Cardinality({ i \in 1..Len(wd) : ~IsOpen(wd[i]) })

\* workingDebts.filter(d => d.balance > 0).length
RemainingDebts(wd) == Cardinality(OpenIndices(wd))

\* slip: the filter is inverted, the minimums of the closed debts are summed
RECURSIVE MinimumTotalOfClosed(_, _)
MinimumTotalOfClosed(wd, i) ==
  IF i > Len(wd) THEN 0
  ELSE (IF IsOpen(wd[i]) THEN 0 ELSE wd[i].minimumPayment)
       + MinimumTotalOfClosed(wd, i + 1)

\* workingDebts.filter(debt => debt.balance > 0).reduce((sum, debt) => sum + debt.minimumPayment, 0)
RECURSIVE MinimumTotalFrom(_, _)
MinimumTotalFrom(wd, i) ==
  IF i > Len(wd) THEN 0
  ELSE (IF IsOpen(wd[i]) THEN wd[i].minimumPayment ELSE 0) + MinimumTotalFrom(wd, i + 1)

\* slip: the minimums of closed debts are summed too
MinimumTotalAllDebts(wd) == SumMinimums(wd, 1)

MinimumTotal(wd) == MinimumTotalFrom(wd, 1)

\* slip: each minimum is compared with the budget, not their sum
BudgetInsufficientPerDebt(wd, budget) ==
  \E i \in OpenIndices(wd) : wd[i].minimumPayment > budget

\* if (minimumTotal > monthlyBudget) throw
BudgetInsufficient(wd, budget) == MinimumTotal(wd) > budget

\* slip: the row of a closed debt is not marked completed
CompletedRowNotMarked(debt) ==
  [id |-> debt.id, startingBalance |-> 0, payment |-> 0, interestPaid |-> 0,
   principalPaid |-> 0, endingBalance |-> 0, isCompleted |-> FALSE]

\* the row pushed for a debt with balance <= 0
CompletedRow(debt) ==
  [id |-> debt.id, startingBalance |-> 0, payment |-> 0, interestPaid |-> 0,
   principalPaid |-> 0, endingBalance |-> 0, isCompleted |-> TRUE]

\* slip: the negation is dropped, no debt ever takes the extra
TakesExtraOnceApplied(applied, extraAmount) == applied /\ extraAmount > 0

\* if (!appliedExtraThisMonth && extraAmount > 0)
TakesExtra(applied, extraAmount) == ~applied /\ extraAmount > 0

\* slip: the extra replaces the minimum instead of being added to it
PaymentWithExtraOnly(debt, takes, extraAmount) ==
  IF takes THEN extraAmount ELSE debt.minimumPayment

\* let payment = debt.minimumPayment; if (...) { payment += extraAmount; ... }
PaymentBeforeCap(debt, takes, extraAmount) ==
  IF takes THEN debt.minimumPayment + extraAmount ELSE debt.minimumPayment

\* slip: the cap adds a year of interest, not a month
MaxPaymentAnnual(debt) == debt.balance + (debt.balance * debt.interestRate) \div 100

\* const maxPayment = debt.balance + monthlyInterest
MaxPayment(debt) ==
  debt.balance + calculateMonthlyInterest(debt.balance, debt.interestRate)

\* slip: the interest is not taken off the payment
PrincipalPaidWholePayment(payment, interestPaid) == round2(payment)

\* round2(payment - interestPaid)
PrincipalPaid(payment, interestPaid) == round2(payment - interestPaid)

\* round2(Math.max(0, debt.balance - principalPaid))
EndingBalance(balance, principalPaid) == round2(Max(0, balance - principalPaid))

\* slip: the row's payment is the principal paid
DebtRowOfPrincipal(debt, payment, interestPaid, principalPaid, endingBalance) ==
  [id |-> debt.id, startingBalance |-> debt.balance,
   payment |-> principalPaid, interestPaid |-> interestPaid,
   principalPaid |-> principalPaid, endingBalance |-> endingBalance,
   isCompleted |-> (endingBalance = 0)]

\* the row pushed for a debt with balance > 0
DebtRow(debt, payment, interestPaid, principalPaid, endingBalance) ==
  [id |-> debt.id, startingBalance |-> debt.balance,
   payment |-> payment, interestPaid |-> interestPaid,
   principalPaid |-> principalPaid, endingBalance |-> endingBalance,
   isCompleted |-> (endingBalance = 0)]

\* one iteration of "for (const debt of workingDebts)" on the debt at index i;
\* st holds the variables the loop body reads and writes
ProcessDebt(st, i) ==
  LET debt == st.wd[i] IN
  IF debt.balance <= 0
  THEN [st EXCEPT !.rows = Append(@, CompletedRow(debt)),
                  !.leftover = Append(@, 0)]
  ELSE
    LET monthlyInterest == calculateMonthlyInterest(debt.balance, debt.interestRate)
        takes      == TakesExtra(st.applied, st.extraAmount)
        payment0   == PaymentBeforeCap(debt, takes, st.extraAmount)
        applied1   == st.applied \/ takes
        extra1     == IF takes THEN 0 ELSE st.extraAmount
        maxPayment == MaxPayment(debt)
        capped     == payment0 > maxPayment
        cut        == IF capped THEN payment0 - maxPayment ELSE 0
        payment    == IF capped THEN maxPayment ELSE payment0
        interestPaid  == round2(monthlyInterest)
        principalPaid == PrincipalPaid(payment, interestPaid)
        endingBalance == EndingBalance(debt.balance, principalPaid)
    IN [wd            |-> [st.wd EXCEPT ![i].balance = endingBalance],
        rows          |-> Append(st.rows,
                            DebtRow(debt, payment, interestPaid, principalPaid,
                                    endingBalance)),
        extraAmount   |-> extra1 + cut,
        applied       |-> applied1,
        totalInterest |-> st.totalInterest + interestPaid,
        totalPaid     |-> st.totalPaid + payment,
        monthPayment  |-> st.monthPayment + payment,
        monthInterest |-> st.monthInterest + interestPaid,
        leftover      |-> Append(st.leftover, cut)]

RECURSIVE ProcessDebts(_, _)
ProcessDebts(st, i) ==
  IF i > Len(st.wd) THEN st ELSE ProcessDebts(ProcessDebt(st, i), i + 1)

\* slip: the ceiling is taken in years of twelve months
CeilingReachedInYears(m) == m > MAX_MONTHS * 12

\* if (month > MAX_MONTHS) break
CeilingReached(m) == m > MAX_MONTHS

\* slip: only the empty list is degenerate, a budget <= 0 enters the loop
IsDegenerateEmptyOnly(ds, budget) == Len(ds) = 0

\* if (debts.length === 0 || monthlyBudget <= 0)
IsDegenerate(ds, budget) == Len(ds) = 0 \/ budget <= 0

\* [...debts].sort(...): the copy is sorted, the caller's array keeps its order
CallerListAfterSort(ds, sortedDs) == ds

\* slip: the working debts are the caller's objects, the balances written in
\* the month show in the caller's list
CallerDebtsSharedWithWorking(ds, wd) ==
  [i \in 1..Len(ds) |->
     LET w == CHOOSE k \in 1..Len(wd) : wd[k].id = ds[i].id
     IN [ds[i] EXCEPT !.balance = wd[w].balance]]

\* sortedDebts.map(debt => ({ ...debt })): the month's balances are written to
\* the copies wd, the caller's Debt objects keep theirs
CallerDebtsAfterWrites(ds, wd) == ds

\* slip: the working debts are sorted again by their current balances
WalkOrderResorted(wd) == sortDebtsBySnowball(wd)

\* for (const debt of workingDebts): the walk follows the order captured at setup
WalkOrder(wd) == wd

\* ------------------------------------------------------------------ actions
Init ==
  /\ \/ debts \in DebtLists /\ monthlyBudget \in Budgets(debts)
     \/ \E s \in Scenarios : debts = s.debts /\ monthlyBudget = s.budget
  /\ pc = "call"
  /\ minimumResult = NoResult
  /\ minimumLocals = << >>
  /\ snowballSorted = NoResult
  /\ avalancheSorted = NoResult
  /\ workingDebts = << >>
  /\ paymentPlan = << >>
  /\ month = 0
  /\ totalInterest = 0
  /\ totalPaid = 0
  /\ leftover = << >>
  /\ result = NoResult
  /\ FixedClock

\* if (debts.length === 0 || monthlyBudget <= 0) return { paymentPlan: [], ... }
Degenerate ==
  /\ pc = "call"
  /\ IsDegenerate(debts, monthlyBudget)
  /\ \E today \in NowISODates(startDate, zoneAhead) :
       result' = [kind |-> "plan", paymentPlan |-> << >>, totalMonths |-> 0,
                  totalInterest |-> 0, totalPaid |-> 0, debtFreeDate |-> today]
  /\ pc' = "done"
  /\ UNCHANGED << debts, monthlyBudget, workingDebts, paymentPlan, month,
                  totalInterest, totalPaid, leftover, others, clock >>

\* sortedDebts, workingDebts, paymentPlan = [], month = 0, totals = 0
Setup ==
  /\ pc = "call"
  /\ ~IsDegenerate(debts, monthlyBudget)
  /\ workingDebts' = sortDebtsBySnowball(debts)
  /\ debts' = CallerListAfterSort(debts, sortDebtsBySnowball(debts))
  /\ paymentPlan' = << >>
  /\ month' = 0
  /\ totalInterest' = 0
  /\ totalPaid' = 0
  /\ pc' = "loop"
  /\ UNCHANGED << monthlyBudget, leftover, result, others, clock >>

\* an iteration of the while loop that throws INSUFFICIENT_BUDGET
Throw ==
  /\ pc = "loop"
  /\ SomeOpen(workingDebts)
  /\ BudgetInsufficient(workingDebts, monthlyBudget)
  /\ month' = month + 1
  /\ pc' = "error"
  /\ result' = NoResult
  /\ UNCHANGED << debts, monthlyBudget, workingDebts, paymentPlan,
                  totalInterest, totalPaid, leftover, others, clock >>

\* an iteration of the while loop that books one month
Month ==
  /\ pc = "loop"
  /\ SomeOpen(workingDebts)
  /\ ~BudgetInsufficient(workingDebts, monthlyBudget)
  /\ LET st0 == [wd |-> WalkOrder(workingDebts), rows |-> << >>,
                 extraAmount |-> monthlyBudget - MinimumTotal(workingDebts),
                 applied |-> FALSE,
                 totalInterest |-> totalInterest, totalPaid |-> totalPaid,
                 monthPayment |-> 0, monthInterest |-> 0, leftover |-> << >>]
         st == ProcessDebts(st0, 1)
     IN /\ month' = month + 1
        /\ workingDebts' = st.wd
        /\ totalInterest' = st.totalInterest
        /\ totalPaid' = st.totalPaid
        /\ leftover' = st.leftover
        /\ paymentPlan' = Append(paymentPlan,
             [month |-> month + 1,
              date |-> toISODate(setMonth(startDate, startDate.month + month),
                                 zoneAhead),
              debts |-> st.rows,
              totalPayment |-> st.monthPayment,
              totalInterest |-> st.monthInterest,
              remainingDebts |-> RemainingDebts(workingDebts)])
        /\ debts' = CallerDebtsAfterWrites(debts, st.wd)
        /\ pc' = IF CeilingReached(month + 1) THEN "return" ELSE "loop"
  /\ UNCHANGED << monthlyBudget, result, others, clock >>

\* the loop ended (no open debt, or break): round the totals and return
Return ==
  /\ \/ pc = "return"
     \/ pc = "loop" /\ ~SomeOpen(workingDebts)
  /\ result' = [kind |-> "plan", paymentPlan |-> paymentPlan,
                totalMonths |-> month,
                totalInterest |-> round2(totalInterest),
                totalPaid |-> round2(totalPaid),
                debtFreeDate |-> toISODate(setMonth(startDate,
                                                    startDate.month + month),
                                           zoneAhead)]
  /\ pc' = "done"
  /\ UNCHANGED << debts, monthlyBudget, workingDebts, paymentPlan, month,
                  totalInterest, totalPaid, leftover, others, clock >>

engine == << monthlyBudget, pc, workingDebts, paymentPlan, month,
             totalInterest, totalPaid, leftover, result >>

\* the functions run to completion one after the other: no call of
\* calculateSnowballPlan is in progress
NoCallInProgress == pc \in {"idle", "done", "error"}

\* a call of calculateMinimumOnlyPlan(debts)
MinimumOnly ==
  /\ NoCallInProgress
  /\ minimumResult = NoResult
  /\ LET r == calculateMinimumOnlyPlan(debts)
     IN /\ minimumResult' = [kind |-> "totals", totalMonths |-> r.totalMonths,
                             totalInterest |-> r.totalInterest,
                             totalPaid |-> r.totalPaid]
        /\ minimumLocals' = r.locals
  /\ UNCHANGED << debts, engine, snowballSorted, avalancheSorted, clock >>

\* a call of sortDebtsBySnowball(debts)
SortSnowball ==
  /\ NoCallInProgress
  /\ snowballSorted = NoResult
  /\ snowballSorted' = [kind |-> "sorted", debts |-> sortDebtsBySnowball(debts)]
  /\ debts' = CallerListAfterSort(debts, sortDebtsBySnowball(debts))
  /\ UNCHANGED << engine, minimumResult, minimumLocals, avalancheSorted, clock >>

\* a call of sortDebtsByAvalanche(debts)
SortAvalanche ==
  /\ NoCallInProgress
  /\ avalancheSorted = NoResult
  /\ avalancheSorted' = [kind |-> "sorted", debts |-> sortDebtsByAvalanche(debts)]
  /\ debts' = CallerListAfterSort(debts, sortDebtsByAvalanche(debts))
  /\ UNCHANGED << engine, minimumResult, minimumLocals, snowballSorted, clock >>

Next ==
  \/ Degenerate \/ Setup \/ Throw \/ Month \/ Return
  \/ MinimumOnly \/ SortSnowball \/ SortAvalanche

Spec == Init /\ [][Next]_vars

\* ----------------------------------- the functions without the simulator
\* debts for the baseline and the sorts, also with balance 0 or minimum 0
BaselineProfiles ==
  { Debt(120, 0, 50),     \* no interest, 2.4 minimums
    Debt(700, 0, 1),      \* no interest, 700 minimums
    Debt(0, 12, 10),      \* balance 0
    Debt(150, 0, 0),      \* minimum 0, no interest
    Debt(150, 12, 0),     \* minimum 0, with interest
    Debt(200, 12, 1),     \* minimum below the first month's interest
    Debt(200, 12, 2),     \* minimum equal to the first month's interest
    Debt(250, 18, 10),    \* about thirty months of minimums
    Debt(100, 7, 50),     \* three months of minimums
    Debt(300, 12, 100) }  \* four months of minimums

\* Scenario D, in currency units: balance 10000 at 24%, minimum 100
ScenarioD == WithIds(<< Debt(1000000, 24, 10000) >>)

BaselineLists ==
  { WithIds(ps) : ps \in UNION { [1..n -> BaselineProfiles] : n \in 0..MaxDebts } }
    \cup { ScenarioD }

BaselineInit ==
  /\ debts \in BaselineLists
  /\ monthlyBudget = 0
  /\ pc = "idle"
  /\ workingDebts = << >>
  /\ paymentPlan = << >>
  /\ month = 0
  /\ totalInterest = 0
  /\ totalPaid = 0
  /\ leftover = << >>
  /\ result = NoResult
  /\ minimumResult = NoResult
  /\ minimumLocals = << >>
  /\ snowballSorted = NoResult
  /\ avalancheSorted = NoResult
  /\ FixedClock

BaselineNext == MinimumOnly \/ SortSnowball \/ SortAvalanche

BaselineSpec == BaselineInit /\ [][BaselineNext]_vars

\* ------------------------------------------------------- the Index page
\* The page keeps debts and monthlyBudget in useLocalStorage and, on every
\* render, calls calculateSnowballPlan(debts, monthlyBudget) when the budget
\* is positive and the list is not empty. Names and start dates are left out:
\* the form and the file always carry them.

\* the numeric fields a user can submit in DebtForm (cents, %, cents)
FormDebts ==
  { Debt(100, 0, 50),
    Debt(300, 12, 100),
    Debt(40, 0, 50) }       \* minimum above the balance

\* the numeric fields a JSON file can carry
FileDebts ==
  FormDebts \cup
    { Debt(100, 150, 50),   \* rate above 100
      Debt(0, 12, 10) }     \* balance 0

\* monthlyBudget of a JSON file (units); 0 stands for an absent or zero field
FileBudgets == { 0, -50 * Cent, 60 * Cent, 200 * Cent }

\* the budgets typed in the calculator (units)
TypedBudgets == { 0, 50 * Cent, 100 * Cent, 150 * Cent, 400 * Cent }

\* the files: a debts array with ids and a monthlyBudget
Files ==
  { [debts |-> WithIds(ps), monthlyBudget |-> b] :
      ps \in UNION { [1..n -> FileDebts] : n \in 0..MaxDebts }, b \in FileBudgets }

\* Index.validateDebt: the numeric conditions
validateDebt(debt) ==
  /\ debt.balance > 0
  /\ debt.interestRate >= 0 /\ debt.interestRate <= 100
  /\ debt.minimumPayment > 0 /\ debt.minimumPayment <= debt.balance

\* DebtForm.validateForm: the numeric conditions (no test of minimumPayment
\* against balance)
validateForm(debt) ==
  /\ debt.balance > 0
  /\ debt.interestRate >= 0 /\ debt.interestRate <= 100
  /\ debt.minimumPayment > 0

\* crypto.randomUUID(): an id no stored debt has
NewId(ds) == CHOOSE id \in 1..(Len(ds) + 1) : \A i \in 1..Len(ds) : ds[i].id /= id

WithId(debt, id) ==
  [id |-> id, balance |-> debt.balance, interestRate |-> debt.interestRate,
   minimumPayment |-> debt.minimumPayment]

\* debts.filter(debt => debt.id !== id)
WithoutId(ds, id) == SelectSeq(ds, LAMBDA d : d.id /= id)

\* debts.map(debt => debt.id === updatedDebt.id ? updatedDebt : debt)
Replaced(ds, updatedDebt) ==
  [i \in 1..Len(ds) |-> IF ds[i].id = updatedDebt.id THEN updatedDebt ELSE ds[i]]

\* monthlyBudget > 0 && debts.length > 0 ? calculateSnowballPlan(...) : null
RenderCall(ds, budget) == IF budget > 0 /\ Len(ds) > 0 THEN "call" ELSE "idle"

\* the page is rendered: no call is running and none has thrown
Rendered == pc \in {"idle", "done"}

\* setDebts / setMonthlyBudget and the render that follows
StoreAndRender(ds, budget) ==
  /\ debts' = ds
  /\ monthlyBudget' = budget
  /\ pc' = RenderCall(ds, budget)
  /\ workingDebts' = << >>
  /\ paymentPlan' = << >>
  /\ month' = 0
  /\ totalInterest' = 0
  /\ totalPaid' = 0
  /\ leftover' = << >>
  /\ result' = NoResult
  /\ UNCHANGED << others, clock >>

\* DebtForm.handleSubmit without editingDebt, then Index.handleAddDebt
handleAddDebt ==
  /\ Rendered
  /\ Len(debts) < MaxDebts
  /\ \E d \in FormDebts :
       /\ validateForm(d)
       /\ IF validateDebt(d)
          THEN StoreAndRender(Append(debts, WithId(d, NewId(debts))), monthlyBudget)
          ELSE UNCHANGED vars

\* DebtForm.handleSubmit with editingDebt, then Index.handleUpdateDebt
handleUpdateDebt ==
  /\ Rendered
  /\ \E i \in 1..Len(debts) : \E d \in FormDebts :
       /\ validateForm(d)
       /\ StoreAndRender(Replaced(debts, WithId(d, debts[i].id)), monthlyBudget)

\* Index.handleDeleteDebt
handleDeleteDebt ==
  /\ Rendered
  /\ \E i \in 1..Len(debts) :
       StoreAndRender(WithoutId(debts, debts[i].id), monthlyBudget)

\* DataManager.handleFileImport: onImportDebts, then onImportBudget for a
\* monthlyBudget that is a number other than 0
handleFileImport ==
  /\ Rendered
  /\ \E file \in Files :
       StoreAndRender(file.debts,
                      IF file.monthlyBudget /= 0 THEN file.monthlyBudget
                      ELSE monthlyBudget)

\* DataManager.handleClearData: onImportDebts([]), onImportBudget(0)
handleClearData ==
  /\ Rendered
  /\ StoreAndRender(<< >>, 0)

\* SnowballCalculator.calculateResults when its three tests pass: the plan
\* is computed for the typed budget and onBudgetChange stores it. The stored
\* minimums are never negative, so the sum of the open debts' minimums never
\* exceeds the typed budget and the call inside the try does not throw.
calculateResults ==
  /\ Rendered
  /\ \E budget \in TypedBudgets :
       /\ budget > 0
       /\ Len(debts) > 0
       /\ budget >= SumMinimums(debts, 1)
       /\ StoreAndRender(debts, budget)

\* the page after the first debt has been added to an empty store (the store
\* starts as [] and 0; handleClearData brings it back there)
PageInit ==
  /\ debts = WithIds(<< Debt(100, 0, 50) >>)
  /\ monthlyBudget = 0
  /\ pc = "idle"
  /\ workingDebts = << >>
  /\ paymentPlan = << >>
  /\ month = 0
  /\ totalInterest = 0
  /\ totalPaid = 0
  /\ leftover = << >>
  /\ result = NoResult
  /\ minimumResult = NoResult
  /\ minimumLocals = << >>
  /\ snowballSorted = NoResult
  /\ avalancheSorted = NoResult
  /\ FixedClock

PageNext ==
  \/ handleClearData \/ handleAddDebt \/ handleUpdateDebt \/ handleDeleteDebt
  \/ handleFileImport \/ calculateResults
  \/ Setup \/ Throw \/ Month \/ Return

PageSpec == PageInit /\ [][PageNext]_vars

\* ------------------------------------------- the simulator and the clock
\* the dates and time zones of the call
StartDates ==
  { Date(2025, 0, 15), Date(2025, 0, 31), Date(2024, 0, 30), Date(2025, 2, 1),
    Date(2025, 4, 31), Date(2025, 11, 31) }

DateProfiles == { Debt(120, 0, 50), Debt(250, 18, 10) }

DateLists ==
  { WithIds(ps) : ps \in UNION { [1..n -> DateProfiles] : n \in 0..MaxDebts } }

DateInit ==
  /\ debts \in DateLists
  /\ monthlyBudget \in Budgets(debts)
  /\ startDate \in StartDates
  /\ zoneAhead \in BOOLEAN
  /\ pc = "call"
  /\ workingDebts = << >>
  /\ paymentPlan = << >>
  /\ month = 0
  /\ totalInterest = 0
  /\ totalPaid = 0
  /\ leftover = << >>
  /\ result = NoResult
  /\ minimumResult = NoResult
  /\ minimumLocals = << >>
  /\ snowballSorted = NoResult
  /\ avalancheSorted = NoResult

DateNext == Degenerate \/ Setup \/ Throw \/ Month \/ Return

DateSpec == DateInit /\ [][DateNext]_vars

\* ------------------------------------------------------------------ claims
Min(a, b) == IF a <= b THEN a ELSE b

Abs(a) == IF a >= 0 THEN a ELSE -a

Returned == pc = "done"

\* the months of the returned plan
Months == 1..Len(result.paymentPlan)

PlanMonth(k) == result.paymentPlan[k]

Positions == 1..Len(workingDebts)

\* a row of a debt that was open at the start of the month
OpenRow(row) == row.startingBalance > 0

\* a row of a debt paid off in that month
PayoffRow(row) == row.startingBalance > 0 /\ row.endingBalance = 0

AllPositive(ds) ==
  \A i \in 1..Len(ds) : ds[i].balance > 0 /\ ds[i].minimumPayment > 0

C2_CutOffReachesNextOpenDebt ==
  (pc \in {"loop", "return"} /\ paymentPlan /= << >>) =>
    LET rows == paymentPlan[Len(paymentPlan)].debts IN
    \A i \in Positions :
      LET later == { j \in Positions : j > i /\ OpenRow(rows[j]) } IN
      (leftover[i] > 0 /\ later /= {}) =>
        LET j == CHOOSE j \in later : \A h \in later : j <= h
            payoff == rows[j].startingBalance
                      + (rows[j].startingBalance * workingDebts[j].interestRate) \div 1200
        IN rows[j].payment = Min(workingDebts[j].minimumPayment + leftover[i], payoff)

\* C3: in every month of a returned plan, less than the budget is paid only
\* if no debt is open at the end of the month.
C3_UnderspendOnlyWhenAllClosed ==
  Returned =>
    \A k \in Months :
      PlanMonth(k).totalPayment < monthlyBudget =>
        \A i \in Positions : PlanMonth(k).debts[i].endingBalance = 0

\* some debt's minimum exceeds its monthly interest and the budget covers the minimums
C4_Precondition ==
  /\ Len(debts) > 0
  /\ \E i \in 1..Len(debts) :
       debts[i].minimumPayment > (debts[i].balance * debts[i].interestRate) \div 1200
  /\ monthlyBudget > 0
  /\ monthlyBudget >= SumMinimums(debts, 1)

\* C4: under that precondition the returned totalMonths is the number of
\* months of the plan and is at most 600.
C4_AtMost600Months ==
  (Returned /\ C4_Precondition) =>
    /\ result.totalMonths = Len(result.paymentPlan)
    /\ result.totalMonths <= 600

RECURSIVE SumBalances(_, _)
SumBalances(ds, i) ==
  IF i > Len(ds) THEN 0 ELSE ds[i].balance + SumBalances(ds, i + 1)

RECURSIVE SumPrincipal(_, _)
SumPrincipal(rows, i) ==
  IF i > Len(rows) THEN 0 ELSE rows[i].principalPaid + SumPrincipal(rows, i + 1)

RECURSIVE SumEnding(_, _)
SumEnding(rows, i) ==
  IF i > Len(rows) THEN 0 ELSE rows[i].endingBalance + SumEnding(rows, i + 1)

\* the principal paid in months lo..hi of the plan
RECURSIVE PrincipalInMonths(_, _, _)
PrincipalInMonths(plan, lo, hi) ==
  IF lo > hi THEN 0
  ELSE IF lo = hi THEN SumPrincipal(plan[lo].debts, 1)
  ELSE LET mid == (lo + hi) \div 2
       IN PrincipalInMonths(plan, lo, mid) + PrincipalInMonths(plan, mid + 1, hi)

\* months lo..hi of the plan conserve principal, given the principal paid before lo
RECURSIVE PrincipalConservedIn(_, _, _, _)
PrincipalConservedIn(plan, lo, hi, paidBefore) ==
  IF lo > hi THEN TRUE
  ELSE IF lo = hi
  THEN paidBefore + SumPrincipal(plan[lo].debts, 1)
         = SumBalances(debts, 1) - SumEnding(plan[lo].debts, 1)
  ELSE LET mid == (lo + hi) \div 2
       IN /\ PrincipalConservedIn(plan, lo, mid, paidBefore)
          /\ PrincipalConservedIn(plan, mid + 1, hi,
                                  paidBefore + PrincipalInMonths(plan, lo, mid))

\* C6: for every month m of a returned plan, the principal paid in months
\* 1..m equals the sum of the original balances minus the sum of the ending
\* balances of month m.
C6_PrincipalConserved ==
  Returned => PrincipalConservedIn(result.paymentPlan, 1, Len(result.paymentPlan), 0)

\* a returned plan of several months with a payment capped at payoff and a
\* booked interest that differs from the accrued interest
C6_Witness ==
  /\ Returned
  /\ Len(result.paymentPlan) >= 3
  /\ Len(debts) = 2
  /\ \E i \in Positions : leftover[i] > 0
  /\ \E k \in Months : \E i \in Positions :
       LET row == PlanMonth(k).debts[i]
       IN row.interestPaid /= (row.startingBalance * workingDebts[i].interestRate) \div 1200

\* C7: in every month of a returned plan in which a debt is open and no debt
\* reaches ending balance 0, the total payment is exactly the budget.
C7_BudgetPaidWhenNoPayoff ==
  Returned =>
    \A k \in Months :
      ( /\ \E i \in Positions : OpenRow(PlanMonth(k).debts[i])
        /\ \A i \in Positions : ~PayoffRow(PlanMonth(k).debts[i]) )
      => PlanMonth(k).totalPayment = monthlyBudget

\* a month after a payoff, with one debt closed, one open and none paid off,
\* in a plan whose budget exceeds the minimums
C7_Witness ==
  /\ Returned
  /\ monthlyBudget > SumMinimums(debts, 1)
  /\ \E k \in Months :
       /\ \E i \in Positions : ~OpenRow(PlanMonth(k).debts[i])
       /\ \E i \in Positions : OpenRow(PlanMonth(k).debts[i])
       /\ \A i \in Positions : ~PayoffRow(PlanMonth(k).debts[i])
       /\ PlanMonth(k).totalPayment = monthlyBudget

\* C8: remainingDebts never increases from a month to the next, and a debt
\* whose ending balance is 0 has starting balance, payment and ending balance
\* 0 in the next month (hence in every later month).
C8_ClosedStaysClosed ==
  Returned =>
    \A k \in Months : k < Len(result.paymentPlan) =>
      /\ PlanMonth(k + 1).remainingDebts <= PlanMonth(k).remainingDebts
      /\ \A i \in Positions :
           PlanMonth(k).debts[i].endingBalance = 0 =>
             /\ PlanMonth(k + 1).debts[i].id = PlanMonth(k).debts[i].id
             /\ PlanMonth(k + 1).debts[i].startingBalance = 0
             /\ PlanMonth(k + 1).debts[i].payment = 0
             /\ PlanMonth(k + 1).debts[i].endingBalance = 0

\* a debt is paid off in some month and the plan goes on for another debt
C8_Witness ==
  /\ Returned
  /\ \E k \in Months : k < Len(result.paymentPlan) /\
       /\ PlanMonth(k + 1).remainingDebts < PlanMonth(k).remainingDebts
       /\ \E i \in Positions : PayoffRow(PlanMonth(k).debts[i])

\* C9: every row is consistent within 1 cent: payment against interest plus
\* principal, and starting balance less principal against ending balance.
C9_RowsConsistent ==
  Returned =>
    \A k \in Months : \A i \in Positions :
      LET row == PlanMonth(k).debts[i] IN
      /\ Abs(row.payment - (row.interestPaid + row.principalPaid)) <= Cent
      /\ Abs(row.startingBalance - row.principalPaid - row.endingBalance) <= Cent

\* a returned plan with a row of negative principal and a row capped at payoff
C9_Witness ==
  /\ Returned
  /\ \E k \in Months : \E i \in Positions : PlanMonth(k).debts[i].principalPaid < 0
  /\ \E k \in Months : \E i \in Positions :
       LET row == PlanMonth(k).debts[i] IN
       /\ PayoffRow(row)
       /\ row.payment < workingDebts[i].minimumPayment

\* C10 (as stated): in every row, payment <= startingBalance + interestPaid,
\* with the booked (rounded) interest.
C10_PaymentWithinBookedPayoff ==
  Returned =>
    \A k \in Months : \A i \in Positions :
      LET row == PlanMonth(k).debts[i] IN
      row.payment <= row.startingBalance + row.interestPaid

\* C10 (amended): in every row, payment <= startingBalance + the accrued
\* interest balance * rate / 1200 before rounding; it exceeds startingBalance
\* + interestPaid by at most half a cent.
C10_PaymentWithinAccruedPayoff ==
  Returned =>
    \A k \in Months : \A i \in Positions :
      LET row == PlanMonth(k).debts[i] IN
      /\ row.payment
           <= row.startingBalance
              + (row.startingBalance * workingDebts[i].interestRate) \div 1200
      /\ 2 * (row.payment - (row.startingBalance + row.interestPaid)) <= Cent

\* a row paid exactly its payoff amount, above startingBalance + interestPaid
C10_Witness ==
  /\ Returned
  /\ \E k \in Months : \E i \in Positions :
       LET row == PlanMonth(k).debts[i] IN
       /\ row.payment > row.startingBalance + row.interestPaid
       /\ row.payment
            = row.startingBalance
              + (row.startingBalance * workingDebts[i].interestRate) \div 1200

\* the ids a sequence of debts or rows lists, in order
IdsOf(rows) == [i \in 1..Len(rows) |-> rows[i].id]

\* ids lists every debt of the caller's list once, by ascending input balance,
\* debts of equal balance in the order of the caller's list
IsSnowballOrder(ids) ==
  /\ Len(ids) = Len(debts)
  /\ \A d \in 1..Len(debts) : \E i \in 1..Len(ids) : ids[i] = d
  /\ \A i, j \in 1..Len(ids) : i < j =>
       \/ debts[ids[i]].balance < debts[ids[j]].balance
       \/ debts[ids[i]].balance = debts[ids[j]].balance /\ ids[i] < ids[j]

\* C11: in every month of a returned plan the rows list the debt ids in the
\* order of ascending input balance (ties in input order), whatever the
\* working balances have become.
C11_RowsInCapturedOrder ==
  Returned => \A k \in Months : IsSnowballOrder(IdsOf(PlanMonth(k).debts))

\* a month in which a later debt's balance is below that of an earlier open debt
C11_Witness ==
  /\ Returned
  /\ \E k \in Months : \E i, j \in Positions :
       /\ i < j
       /\ PlanMonth(k).debts[j].startingBalance > 0
       /\ PlanMonth(k).debts[j].startingBalance < PlanMonth(k).debts[i].startingBalance
       /\ debts[PlanMonth(k).debts[i].id].balance < debts[PlanMonth(k).debts[j].id].balance

\* out holds every debt of the caller's list exactly once, unchanged
IsPermutationOfDebts(out) ==
  /\ Len(out) = Len(debts)
  /\ \A d \in 1..Len(debts) : \E i \in 1..Len(out) : out[i] = debts[d]
  /\ \A i \in 1..Len(out) : out[i].id \in 1..Len(debts) /\ out[i] = debts[out[i].id]

\* C12: sortDebtsBySnowball returns a permutation of its input by ascending
\* balance and sortDebtsByAvalanche one by descending interestRate; debts with
\* equal keys keep the relative order of the input.
C12_SortsAreStablePermutations ==
  /\ snowballSorted /= NoResult =>
       /\ IsPermutationOfDebts(snowballSorted.debts)
       /\ \A i, j \in 1..Len(snowballSorted.debts) : i < j =>
            \/ snowballSorted.debts[i].balance < snowballSorted.debts[j].balance
            \/ /\ snowballSorted.debts[i].balance = snowballSorted.debts[j].balance
               /\ snowballSorted.debts[i].id < snowballSorted.debts[j].id
  /\ avalancheSorted /= NoResult =>
       /\ IsPermutationOfDebts(avalancheSorted.debts)
       /\ \A i, j \in 1..Len(avalancheSorted.debts) : i < j =>
            \/ avalancheSorted.debts[i].interestRate > avalancheSorted.debts[j].interestRate
            \/ /\ avalancheSorted.debts[i].interestRate = avalancheSorted.debts[j].interestRate
               /\ avalancheSorted.debts[i].id < avalancheSorted.debts[j].id

\* both sorts have run: the snowball order differs from the caller's, the two
\* debts have the same rate and the avalanche order differs from the snowball's
C12_Witness ==
  /\ snowballSorted /= NoResult
  /\ avalancheSorted /= NoResult
  /\ Len(debts) >= 2
  /\ snowballSorted.debts /= debts
  /\ \E i, j \in 1..Len(debts) : i < j /\ debts[i].interestRate = debts[j].interestRate
  /\ snowballSorted.debts /= avalancheSorted.debts

EmptyPlan ==
  [kind |-> "plan", paymentPlan |-> << >>, totalMonths |-> 0,
   totalInterest |-> 0, totalPaid |-> 0]

\* the result without its date
Totals(r) ==
  [kind |-> r.kind, paymentPlan |-> r.paymentPlan, totalMonths |-> r.totalMonths,
   totalInterest |-> r.totalInterest, totalPaid |-> r.totalPaid]

\* C15: for an empty debt list (any budget) and for any list with a budget
\* <= 0, calculateSnowballPlan does not throw and books no month: its only
\* outcome is the empty plan with totalMonths, totalInterest and totalPaid 0.
C15_DegenerateReturnsEmptyPlan ==
  (Len(debts) = 0 \/ monthlyBudget <= 0)
    => /\ pc \in {"call", "done"}
       /\ paymentPlan = << >>
       /\ pc = "call" => /\ result = NoResult
                         /\ ENABLED Degenerate
                         /\ ~ENABLED Setup
       /\ pc = "done" => Totals(result) = EmptyPlan

\* the early return was taken for two debts with positive minimums and budget 0
C15_Witness ==
  /\ pc = "done"
  /\ Len(debts) = 2
  /\ AllPositive(debts)
  /\ monthlyBudget = 0
  /\ Totals(result) = EmptyPlan

\* calculateMinimumOnlyPlan(debts) has returned
MinimumReturned == minimumResult /= NoResult

\* the debt's minimum payment does not exceed its first month's interest
\* (balance * rate / 1200)
NotAboveFirstInterest(debt) ==
  debt.minimumPayment
    <= (debt.balance \div 1200) * debt.interestRate
         + ((debt.balance % 1200) * debt.interestRate) \div 1200

\* C16 (as stated): calculateMinimumOnlyPlan returns totals (it has no error
\* outcome), and for EVERY
\* debt with interestRate > 0 whose minimum payment does not exceed its first
\* month's interest the debt's month count is 600 and totalMonths >= 600.
C16_NonCoveringDebtCounts600 ==
  MinimumReturned =>
    /\ minimumResult.kind = "totals"
    /\ \A i \in 1..Len(debts) :
         (debts[i].interestRate > 0 /\ NotAboveFirstInterest(debts[i]))
           => /\ minimumLocals[i].months = 600
              /\ minimumResult.totalMonths >= 600

\* C16 (amended): the same for every such debt with minimumPayment > 0; a
\* debt with minimumPayment 0 is skipped and counts 0 months.
C16_NonCoveringPayingDebtCounts600 ==
  MinimumReturned =>
    /\ minimumResult.kind = "totals"
    /\ \A i \in 1..Len(debts) :
         (debts[i].interestRate > 0 /\ debts[i].minimumPayment > 0
            /\ NotAboveFirstInterest(debts[i]))
           => /\ minimumLocals[i].months = 600
              /\ minimumResult.totalMonths >= 600

\* Scenario D: balance 10000 at 24%, minimum 100, gives totalMonths = 600
C16_Witness ==
  /\ MinimumReturned
  /\ debts = ScenarioD
  /\ NotAboveFirstInterest(debts[1])
  /\ minimumLocals[1].months = 600
  /\ minimumResult.totalMonths = 600

\* calculateMinimumOnlyPlan on the i-th debt alone
SingleDebtPlan(i) == calculateMinimumOnlyPlan(<< debts[i] >>)

RECURSIVE SumSingleInterest(_)
SumSingleInterest(i) ==
  IF i > Len(debts) THEN 0 ELSE SingleDebtPlan(i).totalInterest + SumSingleInterest(i + 1)

RECURSIVE SumSinglePaid(_)
SumSinglePaid(i) ==
  IF i > Len(debts) THEN 0 ELSE SingleDebtPlan(i).totalPaid + SumSinglePaid(i + 1)

\* the caller's debts in the order p
Reordered(p) == [i \in 1..Len(debts) |-> debts[p[i]]]

\* C17: the result of calculateMinimumOnlyPlan for a list is the combination
\* of its results for each debt alone: totalMonths is the largest per-debt
\* count, totalInterest and totalPaid are the sums, each debt's months and
\* interest are those it has alone, and every order of the list gives the
\* same totals.
C17_BaselineCombinesPerDebtResults ==
  MinimumReturned =>
    /\ \A i \in 1..Len(debts) :
         /\ minimumLocals[i] = SingleDebtPlan(i).locals[1]
         /\ minimumResult.totalMonths >= SingleDebtPlan(i).totalMonths
    /\ IF Len(debts) = 0
       THEN minimumResult.totalMonths = 0
       ELSE \E i \in 1..Len(debts) :
              minimumResult.totalMonths = SingleDebtPlan(i).totalMonths
    /\ minimumResult.totalInterest = SumSingleInterest(1)
    /\ minimumResult.totalPaid = SumSinglePaid(1)
    /\ \A p \in Permutations(1..Len(debts)) :
         LET r == calculateMinimumOnlyPlan(Reordered(p))
         IN /\ r.totalMonths = minimumResult.totalMonths
            /\ r.totalInterest = minimumResult.totalInterest
            /\ r.totalPaid = minimumResult.totalPaid

\* two debts that both pay interest, the slower one first in the list
C17_Witness ==
  /\ MinimumReturned
  /\ Len(debts) = 2
  /\ minimumLocals[1].months > minimumLocals[2].months
  /\ minimumLocals[2].months > 0
  /\ minimumLocals[1].interestPaid > 0
  /\ minimumLocals[2].interestPaid > 0
  /\ minimumResult.totalMonths = minimumLocals[1].months

\* the debt is skipped by calculateMinimumOnlyPlan
Skipped(debt) == debt.balance = 0 \/ debt.minimumPayment = 0

RECURSIVE OpenMinimums(_, _)
OpenMinimums(rows, i) ==
  IF i > Len(rows) THEN 0
  ELSE (IF OpenRow(rows[i]) THEN workingDebts[i].minimumPayment ELSE 0)
       + OpenMinimums(rows, i + 1)

\* the first position in attack order whose debt is open at the start of month k
IsFirstOpen(k, i) ==
  /\ OpenRow(PlanMonth(k).debts[i])
  /\ \A j \in 1..(i - 1) : ~OpenRow(PlanMonth(k).debts[j])

\* Scenario B: debts 500 and 1000 at 0%, minimum 50 each (budget 150)
ScenarioB == WithIds(<< Debt(50000, 0, 5000), Debt(100000, 0, 5000) >>)

\* C19: in every month of a returned plan the extra is the budget minus the
\* minimums of the debts still open at the start of that month (a closed
\* debt's minimum is freed), and it is paid, with its own minimum and up to
\* its payoff amount, to the first open debt in attack order. In Scenario B
\* Debt1 pays 100 a month and closes in month 5, Debt2 pays 50 in months 1-5
\* and 150 from month 6, totalMonths is 10, and the minimum-only schedule of
\* Debt2 takes 20 months.
C19_FreedMinimumGoesToNextOpenDebt ==
  /\ Returned =>
       \A k \in Months : \A i \in Positions :
         IsFirstOpen(k, i) =>
           LET row    == PlanMonth(k).debts[i]
               extra  == monthlyBudget - OpenMinimums(PlanMonth(k).debts, 1)
               payoff == row.startingBalance
                           + (row.startingBalance * workingDebts[i].interestRate)
                               \div 1200
           IN /\ extra >= 0
              /\ row.payment = Min(workingDebts[i].minimumPayment + extra, payoff)
  /\ (Returned /\ debts = ScenarioB /\ monthlyBudget = 15000 * Cent) =>
       /\ result.totalMonths = 10
       /\ \A k \in 1..5 :
            /\ PlanMonth(k).debts[1].payment = 10000 * Cent
            /\ PlanMonth(k).debts[2].payment = 5000 * Cent
       /\ PayoffRow(PlanMonth(5).debts[1])
       /\ \A k \in 6..10 :
            /\ PlanMonth(k).debts[1].payment = 0
            /\ PlanMonth(k).debts[2].payment = 15000 * Cent
       /\ MinimumReturned =>
            /\ minimumLocals[2].months = 20
            /\ result.totalMonths < minimumLocals[2].months

\* Scenario B has returned and the minimum-only schedule has been computed
C19_Witness ==
  /\ Returned
  /\ MinimumReturned
  /\ debts = ScenarioB
  /\ monthlyBudget = 15000 * Cent
  /\ result.totalMonths = 10
  /\ PlanMonth(6).debts[2].payment = 15000 * Cent
  /\ minimumLocals[2].months = 20

\* one debt without interest, balance > 0, and a budget equal to its minimum
SingleZeroRateAtMinimum ==
  /\ Len(debts) = 1
  /\ debts[1].interestRate = 0
  /\ debts[1].balance > 0
  /\ debts[1].minimumPayment > 0
  /\ monthlyBudget = debts[1].minimumPayment

\* ceil(balance / minimumPayment) of the single debt
PaymentsNeeded ==
  (debts[1].balance + debts[1].minimumPayment - 1) \div debts[1].minimumPayment

\* C20 (as stated): for ANY single debt with interestRate 0, balance > 0 and a
\* budget equal to its minimum payment, the returned plan has totalMonths =
\* ceil(balance / minimumPayment), totalInterest = 0 and totalPaid = balance.
C20_SingleZeroRatePaidInCeilMonths ==
  (Returned /\ SingleZeroRateAtMinimum)
    => /\ result.totalMonths = PaymentsNeeded
       /\ result.totalInterest = 0
       /\ result.totalPaid = debts[1].balance

\* C20 (amended): the same whenever ceil(balance / minimumPayment) <= 600; a
\* debt that needs more payments is cut off at the month ceiling.
C20_SingleZeroRatePaidWithinCeiling ==
  (Returned /\ SingleZeroRateAtMinimum /\ PaymentsNeeded <= MAX_MONTHS)
    => /\ result.totalMonths = PaymentsNeeded
       /\ result.totalInterest = 0
       /\ result.totalPaid = debts[1].balance

\* Scenario A: balance 1200, minimum 100, budget 100: 12 months, 1200 paid
C20_Witness ==
  /\ Returned
  /\ SingleZeroRateAtMinimum
  /\ debts[1].balance = 120000 * Cent
  /\ monthlyBudget = 10000 * Cent
  /\ result.totalMonths = 12
  /\ result.totalInterest = 0
  /\ result.totalPaid = 120000 * Cent

\* C21 (as stated): on the page, every stored debt has balance > 0, a rate of
\* 0..100 and 0 < minimumPayment <= balance, and a call of the simulator from
\* the page has a positive budget.
C21_StoredDebtsAreValid ==
  /\ \A i \in 1..Len(debts) : validateDebt(debts[i])
  /\ pc \in {"call", "loop", "return", "done", "error"} => monthlyBudget > 0

\* the calendar month of a date, counted from year 0
MonthIndex(date) == date.year * 12 + date.month

\* the start date as the plan prints dates
NominalStart == toISODate(startDate, zoneAhead)

\* C22 (as stated): in a returned plan the date of month 1 is the start date,
\* the date of month k lies k - 1 calendar months after it (consecutive
\* months have consecutive calendar months, for every start day), and
\* debtFreeDate lies totalMonths calendar months after the start date.
C22_DatesInConsecutiveMonths ==
  (Returned /\ Len(result.paymentPlan) > 0)
    => /\ PlanMonth(1).date = NominalStart
       /\ \A k \in Months :
            MonthIndex(PlanMonth(k).date) = MonthIndex(NominalStart) + k - 1
       /\ MonthIndex(result.debtFreeDate)
            = MonthIndex(NominalStart) + result.totalMonths

\* the month's extra: the budget minus the minimums of the debts open at its start
ExtraOf(k) == monthlyBudget - OpenMinimums(PlanMonth(k).debts, 1)

\* balance + monthly interest of the debt at position i at the start of month k
PayoffOf(k, i) ==
  PlanMonth(k).debts[i].startingBalance
    + (PlanMonth(k).debts[i].startingBalance * workingDebts[i].interestRate)
        \div 1200

\* C23: in every month of a returned plan whose extra is positive, the first
\* open debt in attack order is paid min(minimumPayment + extra, balance +
\* monthly interest), and every other open debt is paid min(minimumPayment,
\* balance + monthly interest) (none of them is paid a rollover).
C23_ExtraGoesToFirstOpenDebt ==
  Returned =>
    \A k \in Months :
      ExtraOf(k) > 0 =>
        \A i \in Positions :
          OpenRow(PlanMonth(k).debts[i]) =>
            PlanMonth(k).debts[i].payment
              = IF IsFirstOpen(k, i)
                THEN Min(workingDebts[i].minimumPayment + ExtraOf(k), PayoffOf(k, i))
                ELSE Min(workingDebts[i].minimumPayment, PayoffOf(k, i))

\* a month with a positive extra, paid whole to the first open debt while a
\* later open debt is paid its minimum
C23_Witness ==
  /\ Returned
  /\ \E k \in Months : \E i, j \in Positions :
       /\ ExtraOf(k) > 0
       /\ IsFirstOpen(k, i)
       /\ PlanMonth(k).debts[i].payment
            = workingDebts[i].minimumPayment + ExtraOf(k)
       /\ i < j
       /\ OpenRow(PlanMonth(k).debts[j])
       /\ PlanMonth(k).debts[j].payment = workingDebts[j].minimumPayment

\* the sum of the minimums of the caller's debts with balance > 0: the debts
\* open at the start of month 1
RECURSIVE FirstMonthMinimums(_)
FirstMonthMinimums(i) ==
  IF i > Len(debts) THEN 0
  ELSE (IF debts[i].balance > 0 THEN debts[i].minimumPayment ELSE 0)
       + FirstMonthMinimums(i + 1)

\* C24: with every minimumPayment > 0 and monthlyBudget > 0, the call throws
\* INSUFFICIENT_BUDGET if and only if the minimums of the debts open at the
\* start of month 1 sum to more than the budget (an equal budget is
\* accepted): it then throws before any month is booked, and otherwise no
\* month throws. The test is made at the start of every month.
C24_BudgetCheckFailsOnlyInMonthOne ==
  (monthlyBudget > 0 /\ \A i \in 1..Len(debts) : debts[i].minimumPayment > 0)
    => /\ pc = "error" => /\ paymentPlan = << >>
                          /\ FirstMonthMinimums(1) > monthlyBudget
       /\ FirstMonthMinimums(1) > monthlyBudget
            => /\ pc \in {"call", "loop", "error"}
               /\ paymentPlan = << >>
               /\ pc = "loop" => ENABLED Throw /\ ~ENABLED Month /\ ~ENABLED Return
       /\ FirstMonthMinimums(1) <= monthlyBudget
            => /\ pc /= "error"
               /\ ~ENABLED Throw
       /\ (pc = "loop" /\ paymentPlan /= << >>) => ~ENABLED Throw

\* a budget equal to the sum of the minimums was accepted in month 1 and the
\* plan ran for several months after a debt had closed
C24_Witness ==
  /\ Returned
  /\ Len(debts) = 2
  /\ monthlyBudget = FirstMonthMinimums(1)
  /\ result.totalMonths >= 3
  /\ \E k \in Months : PlanMonth(k).remainingDebts = 1

RECURSIVE SumPayment(_, _)
SumPayment(rows, i) ==
  IF i > Len(rows) THEN 0 ELSE rows[i].payment + SumPayment(rows, i + 1)

RECURSIVE SumInterestPaid(_, _)
SumInterestPaid(rows, i) ==
  IF i > Len(rows) THEN 0 ELSE rows[i].interestPaid + SumInterestPaid(rows, i + 1)

\* the payments of all rows of months lo..hi
RECURSIVE PaymentInMonths(_, _, _)
PaymentInMonths(plan, lo, hi) ==
  IF lo > hi THEN 0
  ELSE IF lo = hi THEN SumPayment(plan[lo].debts, 1)
  ELSE LET mid == (lo + hi) \div 2
       IN PaymentInMonths(plan, lo, mid) + PaymentInMonths(plan, mid + 1, hi)

\* the interest paid of all rows of months lo..hi
RECURSIVE InterestInMonths(_, _, _)
InterestInMonths(plan, lo, hi) ==
  IF lo > hi THEN 0
  ELSE IF lo = hi THEN SumInterestPaid(plan[lo].debts, 1)
  ELSE LET mid == (lo + hi) \div 2
       IN InterestInMonths(plan, lo, mid) + InterestInMonths(plan, mid + 1, hi)

\* C25: the totals of a returned result are those of its paymentPlan:
\* totalMonths is the number of months, whose month fields are 1, 2, ... in
\* order; totalInterest and totalPaid are the sums of interestPaid and of
\* payment over all rows, rounded to cents; each month's totalPayment and
\* totalInterest are the sums over its rows.
C25_TotalsDerivedFromPlan ==
  Returned =>
    /\ result.totalMonths = Len(result.paymentPlan)
    /\ \A k \in Months :
         /\ PlanMonth(k).month = k
         /\ PlanMonth(k).totalPayment = SumPayment(PlanMonth(k).debts, 1)
         /\ PlanMonth(k).totalInterest = SumInterestPaid(PlanMonth(k).debts, 1)
    /\ result.totalPaid
         = round2(PaymentInMonths(result.paymentPlan, 1, Len(result.paymentPlan)))
    /\ result.totalInterest
         = round2(InterestInMonths(result.paymentPlan, 1, Len(result.paymentPlan)))

\* a plan of two debts over several months with interest, whose summed
\* payments are not a whole number of cents before rounding
C25_Witness ==
  /\ Returned
  /\ Len(debts) = 2
  /\ result.totalMonths >= 3
  /\ result.totalInterest > 0
  /\ PaymentInMonths(result.paymentPlan, 1, Len(result.paymentPlan)) % Cent /= 0

\* the working balance of the debt at position i at the start of month k
BalanceAtStart(k, i) ==
  IF k = 1 THEN sortDebtsBySnowball(debts)[i].balance
  ELSE PlanMonth(k - 1).debts[i].endingBalance

\* the minimums of the debts with a working balance > 0 at the start of month k
RECURSIVE MinimumsAtStart(_, _)
MinimumsAtStart(k, i) ==
  IF i > Len(workingDebts) THEN 0
  ELSE (IF BalanceAtStart(k, i) > 0 THEN workingDebts[i].minimumPayment ELSE 0)
       + MinimumsAtStart(k, i + 1)

\* C26: every month of a returned plan has exactly one row per input debt; a
\* debt whose working balance is <= 0 at the start of the month has a row of
\* zeros with isCompleted = true and is counted neither in remainingDebts nor
\* in the minimum total the extra is taken from; in every row isCompleted is
\* true if and only if endingBalance is 0.
C26_OneRowPerDebtClosedRowsZero ==
  Returned =>
    \A k \in Months :
      LET rows == PlanMonth(k).debts IN
      /\ Len(rows) = Len(debts)
      /\ \A d \in 1..Len(debts) :
           Cardinality({ i \in 1..Len(rows) : rows[i].id = debts[d].id }) = 1
      /\ \A i \in 1..Len(rows) :
           /\ rows[i].isCompleted <=> rows[i].endingBalance = 0
           /\ BalanceAtStart(k, i) <= 0
                => /\ rows[i].startingBalance = 0
                   /\ rows[i].payment = 0
                   /\ rows[i].interestPaid = 0
                   /\ rows[i].principalPaid = 0
                   /\ rows[i].endingBalance = 0
                   /\ rows[i].isCompleted
           /\ (BalanceAtStart(k, i) > 0
                 /\ \A j \in 1..(i - 1) : BalanceAtStart(k, j) <= 0)
                => rows[i].payment
                     = Min(workingDebts[i].minimumPayment
                             + monthlyBudget - MinimumsAtStart(k, 1),
                           PayoffOf(k, i))
      /\ PlanMonth(k).remainingDebts
           = Cardinality({ i \in 1..Len(rows) : BalanceAtStart(k, i) > 0 })

\* a month in which one debt is closed and has its row of zeros while the
\* other is open and is paid
C26_Witness ==
  /\ Returned
  /\ Len(debts) = 2
  /\ \E k \in Months :
       /\ BalanceAtStart(k, 1) = 0
       /\ PlanMonth(k).debts[1].isCompleted
       /\ PlanMonth(k).debts[1].payment = 0
       /\ BalanceAtStart(k, 2) > 0
       /\ PlanMonth(k).debts[2].payment > 0
       /\ ~PlanMonth(k).debts[2].isCompleted
       /\ PlanMonth(k).remainingDebts = 1

\* C27 (as stated): on the page, no render calls calculateSnowballPlan with a
\* non-empty list and a stored positive budget below the sum of the stored
\* minimum payments, and the render-time call never throws
\* INSUFFICIENT_BUDGET.
C27_RenderCallNeverInsufficient ==
  /\ pc = "call"
       => ~(Len(debts) > 0 /\ monthlyBudget > 0
              /\ monthlyBudget < SumMinimums(debts, 1))
  /\ pc /= "error"

\* the debts pass the form's ranges and the budget covers the minimums
ValidDebtsCoveredBudget ==
  /\ Len(debts) > 0
  /\ \A i \in 1..Len(debts) :
       /\ debts[i].balance > 0
       /\ debts[i].minimumPayment > 0
       /\ debts[i].minimumPayment <= debts[i].balance
       /\ debts[i].interestRate >= 0
       /\ debts[i].interestRate <= 100
  /\ monthlyBudget >= SumMinimums(debts, 1)

\* both plans of the calculator have been computed for the same debts
BothReturned == Returned /\ MinimumReturned /\ ValidDebtsCoveredBudget

\* C28 (as stated): for valid debts and a budget that covers the minimums the
\* snowball plan's totalMonths is at most the minimum-only plan's totalMonths,
\* so the time saved is never negative.
C28_SnowballNeverSlowerThanMinimums ==
  BothReturned => result.totalMonths <= minimumResult.totalMonths

\* C29 (as stated): for valid debts and a budget that covers the minimums the
\* minimum-only plan's totalPaid and totalInterest are at least the snowball
\* plan's, up to one cent per debt, so the savings are never negative.
C29_MinimumsNeverCheaperThanSnowball ==
  BothReturned =>
    /\ minimumResult.totalPaid + Len(debts) * Cent >= result.totalPaid
    /\ minimumResult.totalInterest + Len(debts) * Cent >= result.totalInterest

\* C30 (as stated): the minimum-only plan's totalMonths is at most 600 for
\* every input, with or without interest.
C30_MinimumOnlyAtMost600Months ==
  MinimumReturned => minimumResult.totalMonths <= 600

====
